---- MODULE Spec2Model ----
(***************************************************************************)
(* Query orchestration pipeline of backend/agent.py: retrieve_information, *)
(* RAGAgent._sanitize_chunks, RAGAgent._build_prompt,                      *)
(* RAGAgent._calculate_confidence and RAGAgent.query_agent.                *)
(*                                                                         *)
(* Python strings are sequences of one-character strings.  A JSON value    *)
(* is a record [t |-> type tag, v |-> payload]; a dict is a TLA+ record    *)
(* whose DOMAIN is the set of keys present.  Similarity scores are         *)
(* fixed-point numbers in hundredths.                                      *)
(***************************************************************************)
EXTENDS Integers, Sequences, FiniteSets, TLC

----------------------------------------------------------------------------
(* Bounds of the model *)

\* longest result list the retriever hands back
MaxRecords == 2
\* largest advance of the wall clock during one external call
MaxDelay == 1

\* chunks a direct call of _build_prompt is given beyond the MaxContextChunks it admits
MaxExtraChunks == 1

----------------------------------------------------------------------------
(* Policy constants of agent.py *)

MinContentLength == 100
MetadataMaxLength == 200
MaxContextChunks == 3
MaxChunkChars == 250

\* max_length of the tokenizer call
MaxInputTokens == 512

HighThreshold == 70
MediumThreshold == 40

----------------------------------------------------------------------------
(* Python string primitives *)

Whitespace == {" ", "\n", "\t"}

Uppers ==
    <<"A", "B", "C", "D", "E", "F", "G", "H", "I", "J", "K", "L", "M",
      "N", "O", "P", "Q", "R", "S", "T", "U", "V", "W", "X", "Y", "Z">>

Lowers ==
    <<"a", "b", "c", "d", "e", "f", "g", "h", "i", "j", "k", "l", "m",
      "n", "o", "p", "q", "r", "s", "t", "u", "v", "w", "x", "y", "z">>

MinOf(S) == CHOOSE m \in S : \A n \in S : m <= n

RECURSIVE FirstSolid(_, _)
\* index of the first non-whitespace character from i on, Len(s) + 1 if none
FirstSolid(s, i) ==
    IF i > Len(s) THEN i
    ELSE IF s[i] \notin Whitespace THEN i
    ELSE FirstSolid(s, i + 1)

RECURSIVE LastSolid(_, _)
\* index of the last non-whitespace character up to i, 0 if none
LastSolid(s, i) ==
    IF i < 1 THEN i
    ELSE IF s[i] \notin Whitespace THEN i
    ELSE LastSolid(s, i - 1)

\* str.strip(): the string without its leading and trailing whitespace
Strip(s) == SubSeq(s, FirstSolid(s, 1), LastSolid(s, Len(s)))

\* the lower-case letter of each upper-case one
LowerOf == [c \in {Uppers[i] : i \in 1..Len(Uppers)} |->
               Lowers[CHOOSE i \in 1..Len(Uppers) : Uppers[i] = c]]

LowerChar(c) == IF c \in DOMAIN LowerOf THEN LowerOf[c] ELSE c

\* str.lower()
Lower(s) == [i \in 1..Len(s) |-> LowerChar(s[i])]

\* str.startswith(p)
StartsWith(s, p) ==
    /\ Len(s) >= Len(p)
    /\ \A j \in 1..Len(p) : s[j] = p[j]

\* p in s
Contains(s, p) ==
    \E i \in 0..(Len(s) - Len(p)) : \A j \in 1..Len(p) : s[i + j] = p[j]

\* s[:n]
Prefix(s, n) == SubSeq(s, 1, IF Len(s) < n THEN Len(s) ELSE n)

\* c * n
Rep(c, n) == [i \in 1..n |-> c]

Digits == <<"0", "1", "2", "3", "4", "5", "6", "7", "8", "9">>

RECURSIVE IntToStr(_)
\* str(n) for n >= 0, as the f-string formats the context index
IntToStr(n) ==
    IF n < 10 THEN <<Digits[n + 1]>>
    ELSE IntToStr(n \div 10) \o <<Digits[(n % 10) + 1]>>

RECURSIVE Join(_, _)
\* sep.join(parts)
Join(sep, parts) ==
    IF Len(parts) = 0 THEN <<>>
    ELSE IF Len(parts) = 1 THEN parts[1]
    ELSE parts[1] \o sep \o Join(sep, Tail(parts))

RECURSIVE SumOf(_)
SumOf(ns) == IF Len(ns) = 0 THEN 0 ELSE Head(ns) + SumOf(Tail(ns))

----------------------------------------------------------------------------
(* Text literals of agent.py *)


MarkerFile ==
    <<"[", "F", "i", "l", "e", ":">>

MarkerWiki ==
    <<"[", "[">>

PatEditThisPage ==
    <<"e", "d", "i", "t", " ", "t", "h", "i", "s", " ", "p", "a", "g", "e">>

PatOnThisPage ==
    <<"o", "n", " ", "t", "h", "i", "s", " ", "p", "a", "g", "e">>

PatTableOfContents ==
    <<"t", "a", "b", "l", "e", " ", "o", "f", " ", "c", "o", "n", "t", "e", "n", "t", "s">>

PatPreviousNext ==
    <<"p", "r", "e", "v", "i", "o", "u", "s", " ", "n", "e", "x", "t">>

PatSkipToContent ==
    <<"s", "k", "i", "p", " ", "t", "o", " ", "c", "o", "n", "t", "e", "n", "t">>

PatResources ==
    <<"r", "e", "s", "o", "u", "r", "c", "e", "s", " ", "r", "e", "s", "o", "u", "r", "c", "e",
      "s">>

PatGlossary ==
    <<"g", "l", "o", "s", "s", "a", "r", "y", " ", "g", "l", "o", "s", "s", "a", "r", "y">>


TxtQuestion ==
    <<"Q", "u", "e", "s", "t", "i", "o", "n", ":", " ">>

TxtContextHead ==
    <<"\n", "\n", "C", "o", "n", "t", "e", "x", "t", ":", "\n">>

TxtInstruction ==
    <<"\n", "\n", "A", "n", "s", "w", "e", "r", " ", "t", "h", "e", " ", "q", "u", "e", "s",
      "t", "i", "o", "n", " ", "b", "a", "s", "e", "d", " ", "o", "n", " ", "t", "h", "e", " ",
      "c", "o", "n", "t", "e", "x", "t", " ", "a", "b", "o", "v", "e", ".", " ", "P", "r", "o",
      "v", "i", "d", "e", " ", "a", " ", "d", "e", "t", "a", "i", "l", "e", "d", " ", "a", "n",
      "s", "w", "e", "r", ".", "\n", "\n", "A", "n", "s", "w", "e", "r", ":">>

TxtFallback ==
    <<"\n", "\n", "A", "n", "s", "w", "e", "r", ":", " ", "I", " ", "d", "o", "n", "'", "t",
      " ", "h", "a", "v", "e", " ", "s", "p", "e", "c", "i", "f", "i", "c", " ", "i", "n", "f",
      "o", "r", "m", "a", "t", "i", "o", "n", " ", "a", "b", "o", "u", "t", " ", "t", "h", "i",
      "s", " ", "t", "o", "p", "i", "c", " ", "i", "n", " ", "m", "y", " ", "k", "n", "o", "w",
      "l", "e", "d", "g", "e", " ", "b", "a", "s", "e", ".", " ", "P", "l", "e", "a", "s", "e",
      " ", "a", "s", "k", " ", "a", "b", "o", "u", "t", " ", "R", "O", "S", " ", "2", ",", " ",
      "h", "u", "m", "a", "n", "o", "i", "d", " ", "r", "o", "b", "o", "t", "i", "c", "s", ",",
      " ", "V", "L", "A", " ", "s", "y", "s", "t", "e", "m", "s", ",", " ", "o", "r", " ", "s",
      "i", "m", "u", "l", "a", "t", "i", "o", "n", " ", "t", "e", "c", "h", "n", "i", "q", "u",
      "e", "s", ".">>

TxtContextLabel ==
    <<"C", "o", "n", "t", "e", "x", "t", " ">>

TxtColonSpace ==
    <<":", " ">>

TxtBlankLine ==
    <<"\n", "\n">>

TxtErrorPrefix ==
    <<"E", "r", "r", "o", "r", ":", " ">>

TxtDash ==
    <<" ", "-", " ">>

\* metadata_patterns of _sanitize_chunks
metadata_patterns ==
    <<PatEditThisPage, PatOnThisPage, PatTableOfContents, PatPreviousNext,
      PatSkipToContent, PatResources, PatGlossary>>

----------------------------------------------------------------------------
(* JSON values and Python exceptions *)

Str(s) == [t |-> "str", v |-> s]

Num(n) == [t |-> "num", v |-> n]

Null == [t |-> "null", v |-> 0]

List(xs) == [t |-> "list", v |-> xs]

\* bool(value): None, 0, "" and [] are falsy
Truthy(x) ==
    CASE x.t = "str" -> Len(x.v) > 0
      [] x.t = "num" -> x.v # 0
      [] x.t = "list" -> Len(x.v) > 0
      [] OTHER -> FALSE

\* isinstance(value, str)
IsStr(x) == x.t = "str"

\* values a set can hold: a list is unhashable
Hashable(x) == x.t # "list"

\* values sum() can add to a number
IsNumber(x) == x.t = "num"

\* dict.get(key, default)
Get(d, key, default) == IF key \in DOMAIN d THEN d[key] ELSE default

Exc(type, msg) == [type |-> type, msg |-> msg]


NameKeyError ==
    <<"K", "e", "y", "E", "r", "r", "o", "r">>

NameTypeError ==
    <<"T", "y", "p", "e", "E", "r", "r", "o", "r">>

NameRuntimeError ==
    <<"R", "u", "n", "t", "i", "m", "e", "E", "r", "r", "o", "r">>

NameConnectionError ==
    <<"C", "o", "n", "n", "e", "c", "t", "i", "o", "n", "E", "r", "r", "o", "r">>

NameJSONDecodeError ==
    <<"J", "S", "O", "N", "D", "e", "c", "o", "d", "e", "E", "r", "r", "o", "r">>

NameAttributeError ==
    <<"A", "t", "t", "r", "i", "b", "u", "t", "e", "E", "r", "r", "o", "r">>

MsgUnhashable ==
    <<"u", "n", "h", "a", "s", "h", "a", "b", "l", "e", " ", "t", "y", "p", "e", ":", " ", "'",
      "l", "i", "s", "t", "'">>

MsgOperand ==
    <<"u", "n", "s", "u", "p", "p", "o", "r", "t", "e", "d", " ", "o", "p", "e", "r", "a", "n",
      "d", " ", "t", "y", "p", "e", "(", "s", ")", " ", "f", "o", "r", " ", "+", ":", " ", "'">>

MsgOperandAnd ==
    <<"'", " ", "a", "n", "d", " ", "'">>

NameValueError ==
    <<"V", "a", "l", "u", "e", "E", "r", "r", "o", "r">>

MsgTextInput ==
    <<"t", "e", "x", "t", " ", "i", "n", "p", "u", "t", " ", "m", "u", "s", "t", " ", "b", "e",
      " ", "o", "f", " ", "t", "y", "p", "e", " ", "s", "t", "r">>

MsgRefused ==
    <<"c", "o", "n", "n", "e", "c", "t", "i", "o", "n", " ", "r", "e", "f", "u", "s", "e", "d">>

MsgOOM ==
    <<"o", "u", "t", " ", "o", "f", " ", "m", "e", "m", "o", "r", "y">>

MsgExpecting ==
    <<"E", "x", "p", "e", "c", "t", "i", "n", "g", " ", "v", "a", "l", "u", "e", ":", " ", "l",
      "i", "n", "e", " ", "1", " ", "c", "o", "l", "u", "m", "n", " ", "1", " ", "(", "c", "h",
      "a", "r", " ", "0", ")">>

MsgNoStrip ==
    <<"'", " ", "o", "b", "j", "e", "c", "t", " ", "h", "a", "s", " ", "n", "o", " ",
      "a", "t", "t", "r", "i", "b", "u", "t", "e", " ", "'", "s", "t", "r", "i", "p", "'">>

MsgNoGet ==
    <<"'", "l", "i", "s", "t", "'", " ", "o", "b", "j", "e", "c", "t", " ", "h", "a", "s", " ",
      "n", "o", " ", "a", "t", "t", "r", "i", "b", "u", "t", "e", " ", "'", "g", "e", "t", "'">>

\* str(KeyError(key)) is the repr of the key
KeyErrorOf(key) == Exc(NameKeyError, <<"'">> \o key \o <<"'">>)

----------------------------------------------------------------------------
(* RAGAgent._sanitize_chunks *)

\* content.strip() exists on a str only: on any other value it raises AttributeError
HasStrip(x) == x.t = "str"

\* a variant that looks for the file-reference marker alone
HasFileMarkerOnly(content_stripped) == StartsWith(content_stripped, MarkerFile)

\* content_stripped.startswith('[File:') or content_stripped.startswith('[[')
HasMalformedMarker(content_stripped) ==
    \/ StartsWith(content_stripped, MarkerFile)
    \/ StartsWith(content_stripped, MarkerWiki)

\* a variant that drops a chunk with a boilerplate phrase whatever its length
IsMetadataOnlyAnyLength(content_stripped) ==
    LET content_lower == Lower(content_stripped)
    IN  \E k \in 1..Len(metadata_patterns) : Contains(content_lower, metadata_patterns[k])

\* is_metadata and len(content_stripped) < 200
IsMetadataOnly(content_stripped) ==
    LET content_lower == Lower(content_stripped)
        is_metadata ==
            \E k \in 1..Len(metadata_patterns) :
                Contains(content_lower, metadata_patterns[k])
    IN  is_metadata /\ Len(content_stripped) < MetadataMaxLength

\* a variant whose minimum-length check measures the content as retrieved
SanitizeVerdictRawLength(chunk) ==
    LET content == Get(chunk, "content", Str(<<>>))
    IN  IF ~Truthy(content) \/ ~IsStr(content) THEN "empty"
        ELSE IF ~HasStrip(content) THEN "raise"
        ELSE LET content_stripped == Strip(content.v)
             IN  IF Len(content_stripped) = 0 THEN "whitespace"
                 ELSE IF HasMalformedMarker(content_stripped) THEN "malformed"
                 ELSE IF Len(content.v) < MinContentLength THEN "short"
                 ELSE IF IsMetadataOnly(content_stripped) THEN "metadata"
                 ELSE "keep"

\* a variant whose first check is "not content" alone
SanitizeVerdictNoTypeCheck(chunk) ==
    LET content == Get(chunk, "content", Str(<<>>))
    IN  IF ~Truthy(content) THEN "empty"
        ELSE IF ~HasStrip(content) THEN "raise"
        ELSE LET content_stripped == Strip(content.v)
             IN  IF Len(content_stripped) = 0 THEN "whitespace"
                 ELSE IF HasMalformedMarker(content_stripped) THEN "malformed"
                 ELSE IF Len(content_stripped) < MinContentLength THEN "short"
                 ELSE IF IsMetadataOnly(content_stripped) THEN "metadata"
                 ELSE "keep"

\* The cascade of checks one chunk goes through; "keep" when none skips it,
\* "raise" when a check raises.
SanitizeVerdict(chunk) ==
    LET content == Get(chunk, "content", Str(<<>>))
    IN  IF ~Truthy(content) \/ ~IsStr(content) THEN "empty"
        ELSE IF ~HasStrip(content) THEN "raise"
        ELSE LET content_stripped == Strip(content.v)
             IN  IF Len(content_stripped) = 0 THEN "whitespace"
                 ELSE IF HasMalformedMarker(content_stripped) THEN "malformed"
                 ELSE IF Len(content_stripped) < MinContentLength THEN "short"
                 ELSE IF IsMetadataOnly(content_stripped) THEN "metadata"
                 ELSE "keep"

\* The decision test_filtering.py shows for a retrieved chunk: "keep" or "skip",
\* "raise" where chunk.get('content', '').strip() or the print of the score
\* with {score:.3f} raises.
TestFilteringVerdict(chunk) ==
    LET got == Get(chunk, "content", Str(<<>>))
        score == Get(chunk, "similarity_score", Num(0))
    IN  IF ~HasStrip(got) \/ ~IsNumber(score) THEN "raise"
        ELSE LET content == Strip(got.v)
                 too_short == Len(content) < 100
                 is_metadata ==
                     /\ \E k \in 1..Len(metadata_patterns) :
                            Contains(Lower(content), metadata_patterns[k])
                     /\ Len(content) < 200
             IN  IF ~(too_short \/ is_metadata) THEN "keep" ELSE "skip"

\* a variant that appends a cleaned copy of the chunk
KeepChunkStripped(sanitized, chunk) ==
    Append(sanitized, [chunk EXCEPT !.content = Str(Strip(chunk.content.v))])

\* sanitized.append(chunk)
KeepChunk(sanitized, chunk) == Append(sanitized, chunk)

RECURSIVE SanitizeLoop(_, _, _, _)
\* The for loop over enumerate(chunks), from index i on; raised when a check of
\* chunk i raised, which ends the call.
SanitizeLoop(chunks, i, sanitized, skipped_count) ==
    IF i > Len(chunks)
    THEN [sanitized |-> sanitized, skipped_count |-> skipped_count, raised |-> FALSE]
    ELSE LET verdict == SanitizeVerdict(chunks[i])
         IN  IF verdict = "raise"
             THEN [sanitized |-> sanitized, skipped_count |-> skipped_count,
                   raised |-> TRUE, chunk |-> chunks[i]]
             ELSE IF verdict # "keep"
             THEN SanitizeLoop(chunks, i + 1, sanitized, skipped_count + 1)
             ELSE SanitizeLoop(chunks, i + 1, KeepChunk(sanitized, chunks[i]),
                               skipped_count)

\* a variant whose loop starts at the second chunk
SanitizeRunFromSecond(chunks) == SanitizeLoop(chunks, 2, <<>>, 0)

\* One call of _sanitize_chunks: the list it returns and its skipped_count.
SanitizeRun(chunks) == SanitizeLoop(chunks, 1, <<>>, 0)

\* The list _sanitize_chunks returns.
SanitizeChunks(chunks) == SanitizeRun(chunks).sanitized

\* What the call logs: a kept/total/skipped line when it skipped any chunk.
SanitizeReport(chunks, run) ==
    IF run.skipped_count > 0
    THEN <<[kept |-> Len(run.sanitized), total |-> Len(chunks),
            skipped |-> run.skipped_count]>>
    ELSE <<>>

----------------------------------------------------------------------------
(* RAGAgent._build_prompt, after its call of _sanitize_chunks *)

\* a variant that cuts no chunk's content
ContextPartsUncut(sanitized_chunks) ==
    LET used == Prefix(sanitized_chunks, MaxContextChunks)
    IN  [i \in 1..Len(used) |->
            TxtContextLabel \o IntToStr(i) \o TxtColonSpace \o used[i].content.v]

\* a variant that takes every sanitized chunk
ContextPartsAll(sanitized_chunks) ==
    [i \in 1..Len(sanitized_chunks) |->
        TxtContextLabel \o IntToStr(i) \o TxtColonSpace
            \o Prefix(sanitized_chunks[i].content.v, MaxChunkChars)]

\* context_parts: "Context i: " and the first 250 characters of chunk i
ContextParts(sanitized_chunks) ==
    LET used == Prefix(sanitized_chunks, MaxContextChunks)
    IN  [i \in 1..Len(used) |->
            TxtContextLabel \o IntToStr(i) \o TxtColonSpace
                \o Prefix(used[i].content.v, MaxChunkChars)]

\* a variant with the context first and the question after it
BuildPromptContextFirst(query, sanitized_chunks) ==
    IF Len(sanitized_chunks) > 0
    THEN Tail(Tail(TxtContextHead)) \o Join(TxtBlankLine, ContextParts(sanitized_chunks))
            \o TxtBlankLine \o TxtQuestion \o query \o TxtInstruction
    ELSE TxtQuestion \o query \o TxtFallback

\* a variant that uses the context template whatever the chunks
BuildPromptNoFallback(query, sanitized_chunks) ==
    TxtQuestion \o query \o TxtContextHead
        \o Join(TxtBlankLine, ContextParts(sanitized_chunks)) \o TxtInstruction

\* a variant that repeats the question after the context
BuildPromptQuestionTwice(query, sanitized_chunks) ==
    IF Len(sanitized_chunks) > 0
    THEN TxtQuestion \o query \o TxtContextHead
            \o Join(TxtBlankLine, ContextParts(sanitized_chunks))
            \o TxtBlankLine \o TxtQuestion \o query \o TxtInstruction
    ELSE TxtQuestion \o query \o TxtFallback

\* The prompt _build_prompt returns for the chunks its call of _sanitize_chunks kept.
BuildPromptFrom(query, sanitized_chunks) ==
    IF Len(sanitized_chunks) > 0
    THEN TxtQuestion \o query \o TxtContextHead
            \o Join(TxtBlankLine, ContextParts(sanitized_chunks)) \o TxtInstruction
    ELSE TxtQuestion \o query \o TxtFallback

----------------------------------------------------------------------------
(* self.tokenizer(prompt, return_tensors="pt", truncation=True, max_length=512) *)

\* The tokenizer is the transformers library's. Its tokens are taken as one per
\* character, closed by the end-of-sequence token; with truncation=True it keeps
\* the first max_length - 1 tokens of a longer text and closes them the same way.
Eos == "</s>"

\* a variant that keeps the last tokens of a longer text
TokenizeKeepingEnd(text, max_length) ==
    IF Len(text) + 1 <= max_length THEN text \o <<Eos>>
    ELSE SubSeq(text, Len(text) - max_length + 2, Len(text)) \o <<Eos>>

Tokenize(text, max_length) ==
    IF Len(text) + 1 <= max_length THEN text \o <<Eos>>
    ELSE SubSeq(text, 1, max_length - 1) \o <<Eos>>

\* tokenizer.decode(input_ids, skip_special_tokens=True)
Decode(ids) == SelectSeq(ids, LAMBDA t : t # Eos)

----------------------------------------------------------------------------
(* RAGAgent._calculate_confidence *)

\* The similarity_score values sum() adds up, 0.0 where the key is absent.
Scores(matched_chunks) ==
    [i \in 1..Len(matched_chunks) |-> Get(matched_chunks[i], "similarity_score", Num(0))]

\* sum() raises TypeError at the first value that is not a number.
ConfidenceRaises(matched_chunks) ==
    \E i \in 1..Len(matched_chunks) : ~IsNumber(Scores(matched_chunks)[i])

\* a variant whose thresholds are exclusive
CalculateConfidenceStrict(matched_chunks) ==
    IF Len(matched_chunks) = 0 THEN "low"
    ELSE LET total == SumOf([i \in 1..Len(matched_chunks) |-> Scores(matched_chunks)[i].v])
             n == Len(matched_chunks)
         IN  IF total > HighThreshold * n THEN "high"
             ELSE IF total > MediumThreshold * n THEN "medium"
             ELSE "low"

CalculateConfidence(matched_chunks) ==
    IF Len(matched_chunks) = 0 THEN "low"
    ELSE LET total == SumOf([i \in 1..Len(matched_chunks) |-> Scores(matched_chunks)[i].v])
             n == Len(matched_chunks)
         IN  \* avg_score >= 0.7 with avg_score = total / n, in hundredths
             IF total >= HighThreshold * n THEN "high"
             ELSE IF total >= MediumThreshold * n THEN "medium"
             ELSE "low"

----------------------------------------------------------------------------
(* retrieve_information *)

\* The keys the list comprehension reads from each record, in its order.
FieldOrder == <<"content", "url", "position", "similarity_score">>

FieldChars ==
    [content |-> <<"c", "o", "n", "t", "e", "n", "t">>,
     url |-> <<"u", "r", "l">>,
     position |-> <<"p", "o", "s", "i", "t", "i", "o", "n">>,
     similarity_score |-> <<"s", "i", "m", "i", "l", "a", "r", "i", "t", "y", "_",
                            "s", "c", "o", "r", "e">>]

HasAllFields(chunk) == \A k \in 1..Len(FieldOrder) : FieldOrder[k] \in DOMAIN chunk

\* The first key of FieldOrder the record lacks: chunk[key] raises KeyError(key).
FirstMissingKey(chunk) ==
    FieldOrder[MinOf({k \in 1..Len(FieldOrder) : FieldOrder[k] \notin DOMAIN chunk})]

\* One entry of formatted_results: exactly the four keys, other keys dropped.
FormatChunk(chunk) == [k \in {FieldOrder[j] : j \in 1..Len(FieldOrder)} |-> chunk[k]]

\* The dict retrieve_information returns from its try block.
RetrievalOk(query, formatted_results) ==
    [query |-> query, retrieved_chunks |-> formatted_results,
     total_results |-> Len(formatted_results)]

\* The dict retrieve_information returns from its except block.
RetrievalCaught(query, e) ==
    [query |-> query, retrieved_chunks |-> <<>>, total_results |-> 0, error |-> e.msg]

\* The list comprehension over results.get('results', []).
FormatResults(query, results) ==
    IF \A i \in 1..Len(results) : HasAllFields(results[i])
    THEN RetrievalOk(query, [i \in 1..Len(results) |-> FormatChunk(results[i])])
    ELSE LET bad == MinOf({i \in 1..Len(results) : ~HasAllFields(results[i])})
         IN  RetrievalCaught(query, KeyErrorOf(FieldChars[FirstMissingKey(results[bad])]))

\* retrieve_information(query) against a retriever that behaves as `reply` says:
\* [raised |-> TRUE, exc |-> e] when the call raises (the constructor sits outside
\* the try block), else [raised |-> FALSE, value |-> the dict returned].
RetrieveInformation(query, reply) ==
    CASE reply.kind = "ctor_raises" ->
            [raised |-> TRUE, exc |-> reply.exc]
      [] reply.kind \in {"retrieve_raises", "unparsable", "not_dict"} ->
            [raised |-> FALSE, value |-> RetrievalCaught(query, reply.exc)]
      [] reply.kind = "no_results" ->
            [raised |-> FALSE, value |-> RetrievalOk(query, <<>>)]
      [] OTHER ->
            [raised |-> FALSE, value |-> FormatResults(query, reply.results)]

----------------------------------------------------------------------------
(* RAGAgent.query_agent: assembling the response *)

NoExc == Exc(<<>>, <<>>)

NoResponse == [status |-> "none"]

\* chunk['url'] over retrieved_chunks: KeyError when a chunk has no url.
UrlMissing(chunks) == \E i \in 1..Len(chunks) : "url" \notin DOMAIN chunks[i]

\* A set comprehension raises TypeError at the first unhashable url.
UrlUnhashable(chunks) ==
    \E i \in 1..Len(chunks) : "url" \in DOMAIN chunks[i] /\ ~Hashable(chunks[i].url)

UrlSet(chunks) == {chunks[i].url : i \in 1..Len(chunks)}

\* list(a set): its elements once each, in an order the set decides.
Orderings(S) ==
    {s \in [1..Cardinality(S) -> S] : \A x \in S : \E i \in 1..Cardinality(S) : s[i] = x}

PyTypeName(x) ==
    CASE x.t = "str" -> <<"s", "t", "r">>
      [] x.t = "list" -> <<"l", "i", "s", "t">>
      [] x.t = "null" -> <<"N", "o", "n", "e", "T", "y", "p", "e">>
      [] OTHER -> <<"f", "l", "o", "a", "t">>

\* The AttributeError of content.strip() on a content that is no str.
SanitizeError(run) ==
    Exc(NameAttributeError,
        <<"'">> \o PyTypeName(run.chunk.content) \o MsgNoStrip)

\* The TypeError of sum() at the first score that is not a number.
ConfidenceError(matched_chunks) ==
    LET bad == MinOf({i \in 1..Len(matched_chunks) : ~IsNumber(Scores(matched_chunks)[i])})
        left == IF bad = 1 THEN <<"i", "n", "t">> ELSE <<"f", "l", "o", "a", "t">>
    IN  Exc(NameTypeError,
            MsgOperand \o left \o MsgOperandAnd
                \o PyTypeName(Scores(matched_chunks)[bad]) \o <<"'">>)

\* (time.time() - start_time) * 1000
ElapsedMs(t, start) == (t - start) * 1000

SuccessResponse(answer, sources, chunks, ms) ==
    [answer |-> Strip(answer),
     sources |-> sources,
     matched_chunks |-> chunks,
     query_time_ms |-> ms,
     confidence |-> CalculateConfidence(chunks),
     status |-> "success"]

\* a variant whose error field is str(e) alone
ErrorResponseStrOnly(e, ms) ==
    [answer |-> TxtErrorPrefix \o e.type \o TxtDash \o e.msg,
     sources |-> <<>>,
     matched_chunks |-> <<>>,
     error |-> e.msg,
     query_time_ms |-> ms,
     status |-> "error"]

ErrorResponse(e, ms) ==
    [answer |-> TxtErrorPrefix \o e.type \o TxtDash \o e.msg,
     sources |-> <<>>,
     matched_chunks |-> <<>>,
     error |-> e.type \o TxtColonSpace \o e.msg,
     query_time_ms |-> ms,
     status |-> "error"]

\* except Exception: every fault a stage raises is an Exception instance
ExceptionClasses ==
    {NameKeyError, NameTypeError, NameRuntimeError, NameConnectionError,
     NameJSONDecodeError, NameAttributeError, NameValueError}

\* a variant: except RuntimeError
CatchesRuntimeErrorOnly(e) == e.type = NameRuntimeError

Catches(e) == e.type \in ExceptionClasses

----------------------------------------------------------------------------
(* Inputs: what the retriever and the generation backend can hand back *)


QueryRos ==
    <<"W", "h", "a", "t", " ", "i", "s", " ", "R", "O", "S", "2", "?">>

AnswerRos ==
    <<" ", "R", "O", "S", " ", "2", " ", "i", "s", " ", "a", " ", "r", "o", "b", "o", "t", "i",
      "c", "s", " ", "m", "i", "d", "d", "l", "e", "w", "a", "r", "e", ".", " ">>

NavShortHead ==
    <<"E", "d", "i", "t", " ", "T", "h", "i", "s", " ", "P", "a", "g", "e", " ">>

NavLongHead ==
    <<"T", "a", "b", "l", "e", " ", "o", "f", " ", "C", "o", "n", "t", "e", "n", "t", "s", " ">>

UrlA == <<"/", "a">>

UrlB == <<"/", "b">>

UrlC == <<"/", "c">>

\* 260 characters: kept, and longer than the per-chunk cut
LongContent == Rep("x", MaxChunkChars + 10)

\* exactly 100 characters between one leading and one trailing whitespace: kept
EdgeContent == <<" ">> \o Rep("y", MinContentLength) \o <<"\n">>

\* 99 characters once stripped, 101 as retrieved
PaddedShortContent == <<" ">> \o Rep("z", MinContentLength - 1) \o <<" ">>

\* 50 characters
ShortContent == Rep("x", MinContentLength \div 2)

FileContent == MarkerFile \o Rep("x", MinContentLength + 50)

\* a boilerplate phrase in mixed case, 135 characters in all
NavShortContent == NavShortHead \o Rep("x", MinContentLength + 20)

\* a boilerplate phrase, 218 characters in all
NavLongContent == NavLongHead \o Rep("x", MetadataMaxLength)

Record(content, url, position, score) ==
    [content |-> content, url |-> url, position |-> Num(position),
     similarity_score |-> score]

\* Records a retriever result can hold: sound ones, ones the sanitizer drops,
\* ones with a key missing, a wrongly typed url or score, an extra key.
RecordPool ==
    { Record(Str(LongContent), Str(UrlA), 0, Num(90)),
      Record(Str(EdgeContent), Str(UrlB), 1, Num(50)),
      Record(Str(ShortContent), Str(UrlC), 2, Num(90)),
      Record(Str(PaddedShortContent), Str(UrlA), 3, Num(30)),
      Record(Str(FileContent), Str(UrlC), 4, Num(90)),
      Record(Str(NavShortContent), Str(UrlB), 5, Num(50)),
      Record(Str(NavLongContent), Str(UrlA), 6, Num(30)),
      Record(Null, Str(UrlB), 7, Num(50)),
      Record(Str(<<" ", "\n">>), Str(UrlB), 8, Num(90)),
      Record(Str(LongContent), List(<<Str(UrlA)>>), 9, Num(90)),
      Record(Str(LongContent), Str(UrlB), 10, Str(<<"h", "i">>)),
      [content |-> Str(LongContent), url |-> Str(UrlA), position |-> Num(11)],
      [url |-> Str(UrlB), position |-> Num(12), similarity_score |-> Num(90)],
      [content |-> Str(EdgeContent), url |-> Str(UrlC), position |-> Num(13),
       similarity_score |-> Num(50), id |-> Num(7)] }

\* A record the sanitizer drops, with a score that is not a number.
ShortRecordBadScore == Record(Str(ShortContent), Str(UrlC), 18, Str(<<"h", "i">>))

\* Contents for direct calls of _sanitize_chunks: boilerplate one character under
\* and exactly at 200 characters, a number, the empty string.
NavUnderContent == NavShortHead \o Rep("n", MetadataMaxLength - 1 - Len(NavShortHead))

NavAtContent == NavLongHead \o Rep("n", MetadataMaxLength - Len(NavLongHead))

SanitizePool ==
    RecordPool \cup
        { Record(Str(NavUnderContent), Str(UrlA), 14, Num(50)),
          Record(Str(NavAtContent), Str(UrlB), 15, Num(50)),
          Record(Num(42), Str(UrlC), 16, Num(50)),
          Record(Str(<<>>), Str(UrlA), 17, Num(50)) }

\* Chunks for direct calls of _build_prompt: one of 300 characters, one with
\* whitespace at both ends, one behind each malformed marker.
ContentA == Rep("a", MaxChunkChars + 50)

WikiContent == MarkerWiki \o Rep("w", MaxChunkChars + 50)

PromptPool ==
    { Record(Str(ContentA), Str(UrlA), 0, Num(80)),
      Record(Str(EdgeContent), Str(UrlB), 2, Num(50)),
      Record(Str(FileContent), Str(UrlC), 3, Num(90)),
      Record(Str(WikiContent), Str(UrlC), 4, Num(95)) }

\* Queries for them: the one of __main__ and the empty one.
PromptQueries == {QueryRos, <<>>}

\* Queries at the tokenizer's max_length: the longest whose "Question: " part
\* fits it with its end-of-sequence token, and one character more.
QueryFitting == Rep("q", MaxInputTokens - 1 - Len(TxtQuestion))

QueryOver == Rep("q", MaxInputTokens - Len(TxtQuestion))

TokenizeQueries == {QueryRos, QueryFitting, QueryOver}

\* Chunks for them: kept ones, so that the context grows with their number.
TokenizePool ==
    { Record(Str(ContentA), Str(UrlA), 0, Num(80)),
      Record(Str(EdgeContent), Str(UrlB), 2, Num(50)) }

\* Scores for direct calls of _calculate_confidence, in hundredths: the ends of
\* the range, each threshold and its neighbours.
ScorePool == {0, 39, 40, 41, 69, 70, 71, 100}

RECURSIVE SeqsUpTo(_, _)
\* the sequences over S of length at most n
SeqsUpTo(S, n) ==
    IF n = 0 THEN {<<>>}
    ELSE LET shorter == SeqsUpTo(S, n - 1)
         IN  shorter \cup {Append(s, x) : s \in shorter, x \in S}

Reply(kind, e, results) == [kind |-> kind, exc |-> e, results |-> results]

NoReply == Reply("none", NoExc, <<>>)

\* How one retrieval can go: the constructor raises, retrieve() raises, its
\* text does not parse, it parses to a list, to a dict without 'results', or
\* to a dict whose 'results' is a list of records; or retrieve() never returns
\* (it is called with query, top_k and threshold, and no timeout).
RetrieverReplies ==
    { Reply("never_returns", NoExc, <<>>),
      Reply("ctor_raises", Exc(NameConnectionError, MsgRefused), <<>>),
      Reply("retrieve_raises", Exc(NameConnectionError, MsgRefused), <<>>),
      Reply("unparsable", Exc(NameJSONDecodeError, MsgExpecting), <<>>),
      Reply("not_dict", Exc(NameAttributeError, MsgNoGet), <<>>),
      Reply("no_results", NoExc, <<>>) }
    \cup {Reply("results", NoExc, rs) : rs \in SeqsUpTo(RecordPool \cup {ShortRecordBadScore}, MaxRecords)}

\* The replies drawn while two queries run side by side: each way retrieval can
\* fail, one kept chunk, and a dropped chunk with a kept one.
ConcurrentReplies ==
    { Reply("ctor_raises", Exc(NameConnectionError, MsgRefused), <<>>),
      Reply("retrieve_raises", Exc(NameConnectionError, MsgRefused), <<>>),
      Reply("unparsable", Exc(NameJSONDecodeError, MsgExpecting), <<>>),
      Reply("results", NoExc,
            <<[url |-> Str(UrlB), position |-> Num(12), similarity_score |-> Num(90)]>>),
      Reply("results", NoExc, <<Record(Str(LongContent), Str(UrlA), 0, Num(90))>>),
      Reply("results", NoExc,
            <<Record(Str(ShortContent), Str(UrlC), 2, Num(90)),
              Record(Str(EdgeContent), Str(UrlB), 1, Num(50))>>) }

Outcome(stage, e, answer) == [stage |-> stage, exc |-> e, answer |-> answer]

NoOutcome == Outcome("none", NoExc, <<>>)

\* How tokenizing, generating and decoding can go: all three succeed and give
\* an answer, or one of them raises (an exception with or without a message), or
\* generate() never returns (it is called without a time limit).
GenerationOutcomes ==
    { Outcome("ok", NoExc, AnswerRos),
      Outcome("never_returns", NoExc, <<>>),
      Outcome("tokenize", Exc(NameValueError, MsgTextInput), <<>>),
      Outcome("generate", Exc(NameRuntimeError, MsgOOM), <<>>),
      Outcome("decode", Exc(NameRuntimeError, <<>>), <<>>) }

Queries == {"q1", "q2"}

QueryPool == {QueryRos}

\* the query of a second caller
QueryVla == <<"W", "h", "a", "t", " ", "i", "s", " ", "V", "L", "A", "?">>

NoResult == [retrieved_chunks |-> <<>>]

----------------------------------------------------------------------------
(* State *)

VARIABLES
    pc,                \* stage each query_agent call is at
    query_text,        \* its argument
    now,               \* time.time()
    start_time,        \* its start_time
    retriever_reply,   \* how the retriever behaved for it
    retrieval_result,  \* what retrieve_information returned
    sanitized_chunks,  \* what _sanitize_chunks returned
    log,               \* the kept/skipped lines _sanitize_chunks logged
    prompt,            \* what _build_prompt returned
    generation,        \* how tokenizer and model behaved for it
    answer,            \* the decoded answer
    exc,               \* the exception raised inside the try block
    response,          \* the dict query_agent returned
    call_pc,           \* a direct call of one method: "none", "call", "returned", ...
    call_chunks,       \* the list of chunks passed to it
    call_out,          \* the list _sanitize_chunks returned
    call_log,          \* what _sanitize_chunks logged
    call_query,        \* the query passed to _build_prompt
    call_prompt,       \* the prompt _build_prompt returned
    call_input,        \* the input ids the tokenizer made of the prompt
    call_label         \* the label _calculate_confidence returned

agent_vars ==
    <<pc, query_text, now, start_time, retriever_reply, retrieval_result,
      sanitized_chunks, log, prompt, generation, answer, exc, response>>

call_vars ==
    <<call_pc, call_chunks, call_out, call_log, call_query, call_prompt, call_input,
      call_label>>

\* No direct call has returned anything yet.
CallResultsInit ==
    /\ call_out = <<>>
    /\ call_log = <<>>
    /\ call_prompt = <<>>
    /\ call_input = <<>>
    /\ call_label = "none"

vars == <<agent_vars, call_vars>>

\* a variant that keeps the retrieval result on the agent, one for all queries
RetrievedChunksOfAgent(q) ==
    LET done == {r \in Queries : "query" \in DOMAIN retrieval_result[r]}
    IN  IF done = {} THEN <<>>
        ELSE Get(retrieval_result[CHOOSE r \in done : TRUE], "retrieved_chunks", <<>>)

\* retrieved_chunks = retrieval_result.get('retrieved_chunks', [])
RetrievedChunks(q) == Get(retrieval_result[q], "retrieved_chunks", <<>>)

\* The agent with the calls of query_agent in `invoked` about to start.
AgentInit(invoked) ==
    /\ pc = [q \in Queries |-> IF q \in invoked THEN "Start" ELSE "Idle"]
    /\ query_text \in [Queries -> QueryPool]
    /\ now = 0
    /\ start_time = [q \in Queries |-> 0]
    /\ retriever_reply = [q \in Queries |-> NoReply]
    /\ retrieval_result = [q \in Queries |-> NoResult]
    /\ sanitized_chunks = [q \in Queries |-> <<>>]
    /\ log = [q \in Queries |-> <<>>]
    /\ prompt = [q \in Queries |-> <<>>]
    /\ generation = [q \in Queries |-> NoOutcome]
    /\ answer = [q \in Queries |-> <<>>]
    /\ exc = [q \in Queries |-> NoExc]
    /\ response = [q \in Queries |-> NoResponse]

\* One call of query_agent, no direct call of _sanitize_chunks.
Init ==
    /\ AgentInit({"q1"})
    /\ call_pc = "none"
    /\ call_chunks = <<>>
    /\ call_query = <<>>
    /\ CallResultsInit

----------------------------------------------------------------------------
(* RAGAgent.query_agent, stage by stage *)

\* start_time = time.time()
Start(q) ==
    /\ pc[q] = "Start"
    /\ start_time' = [start_time EXCEPT ![q] = now]
    /\ pc' = [pc EXCEPT ![q] = "Retrieving"]
    /\ UNCHANGED <<query_text, now, retriever_reply, retrieval_result, sanitized_chunks,
                   log, prompt, generation, answer, exc, response,
                   call_vars>>

\* What the retriever may answer: anything when one query runs, the replies of
\* ConcurrentReplies when every query of Queries runs.
RepliesOffered ==
    IF \A r \in Queries : pc[r] # "Idle" THEN ConcurrentReplies ELSE RetrieverReplies

\* retrieval_result = retrieve_information(query_text)
Retrieve(q) ==
    /\ pc[q] = "Retrieving"
    /\ retriever_reply[q] = NoReply
    /\ \E reply \in RepliesOffered :
          LET r == RetrieveInformation(query_text[q], reply)
          IN  /\ retriever_reply' = [retriever_reply EXCEPT ![q] = reply]
              /\ IF reply.kind = "never_returns"
                 THEN UNCHANGED <<exc, pc, retrieval_result>>
                 ELSE IF r.raised
                 THEN /\ exc' = [exc EXCEPT ![q] = r.exc]
                      /\ pc' = [pc EXCEPT ![q] = "Failed"]
                      /\ UNCHANGED retrieval_result
                 ELSE /\ retrieval_result' = [retrieval_result EXCEPT ![q] = r.value]
                      /\ pc' = [pc EXCEPT ![q] = "Sanitizing"]
                      /\ UNCHANGED exc
    /\ UNCHANGED <<query_text, now, start_time, sanitized_chunks, log, prompt, generation,
                   answer, response,
                   call_vars>>

\* _build_prompt: sanitized_chunks = self._sanitize_chunks(retrieved_chunks)
Sanitize(q) ==
    /\ pc[q] = "Sanitizing"
    /\ LET run == SanitizeRun(RetrievedChunks(q))
       IN  IF run.raised
           THEN /\ exc' = [exc EXCEPT ![q] = SanitizeError(run)]
                /\ pc' = [pc EXCEPT ![q] = "Failed"]
                /\ UNCHANGED <<sanitized_chunks, log>>
           ELSE /\ sanitized_chunks' = [sanitized_chunks EXCEPT ![q] = run.sanitized]
                /\ log' = [log EXCEPT ![q] = @ \o SanitizeReport(RetrievedChunks(q), run)]
                /\ pc' = [pc EXCEPT ![q] = "PromptBuilding"]
                /\ UNCHANGED exc
    /\ UNCHANGED <<query_text, now, start_time, retriever_reply, retrieval_result, prompt,
                   generation, answer, response,
                   call_vars>>

\* _build_prompt: the prompt from the query and the sanitized chunks
BuildPrompt(q) ==
    /\ pc[q] = "PromptBuilding"
    /\ prompt' = [prompt EXCEPT ![q] = BuildPromptFrom(query_text[q], sanitized_chunks[q])]
    /\ pc' = [pc EXCEPT ![q] = "Generating"]
    /\ UNCHANGED <<query_text, now, start_time, retriever_reply, retrieval_result,
                   sanitized_chunks, log, generation, answer, exc, response,
                   call_vars>>

\* tokenizer(...), model.generate(...), tokenizer.decode(...)
Generate(q) ==
    /\ pc[q] = "Generating"
    /\ generation[q] = NoOutcome
    /\ \E g \in GenerationOutcomes :
          /\ generation' = [generation EXCEPT ![q] = g]
          /\ IF g.stage = "never_returns"
             THEN UNCHANGED <<answer, pc, exc>>
             ELSE IF g.stage = "ok"
             THEN /\ answer' = [answer EXCEPT ![q] = g.answer]
                  /\ pc' = [pc EXCEPT ![q] = "Responding"]
                  /\ UNCHANGED exc
             ELSE /\ exc' = [exc EXCEPT ![q] = g.exc]
                  /\ pc' = [pc EXCEPT ![q] = "Failed"]
                  /\ UNCHANGED answer
    /\ UNCHANGED <<query_text, now, start_time, retriever_reply, retrieval_result,
                   sanitized_chunks, log, prompt, response,
                   call_vars>>

\* sources, query_time_ms, confidence and the success dict; time.time() is
\* read once more, after the sources and before the confidence
Respond(q) ==
    /\ pc[q] = "Responding"
    /\ LET chunks == RetrievedChunks(q)
       IN  IF UrlMissing(chunks) \/ UrlUnhashable(chunks)
           THEN /\ exc' = [exc EXCEPT ![q] =
                        IF UrlMissing(chunks) THEN KeyErrorOf(FieldChars.url)
                        ELSE Exc(NameTypeError, MsgUnhashable)]
                /\ pc' = [pc EXCEPT ![q] = "Failed"]
                /\ UNCHANGED <<now, response>>
           ELSE \E t \in now..(now + MaxDelay) :
                /\ now' = t
                /\ IF ConfidenceRaises(chunks)
                   THEN /\ exc' = [exc EXCEPT ![q] = ConfidenceError(chunks)]
                        /\ pc' = [pc EXCEPT ![q] = "Failed"]
                        /\ UNCHANGED response
                   ELSE /\ \E sources \in Orderings(UrlSet(chunks)) :
                              response' = [response EXCEPT ![q] =
                                  SuccessResponse(answer[q], sources, chunks,
                                                  ElapsedMs(t, start_time[q]))]
                        /\ pc' = [pc EXCEPT ![q] = "Returned"]
                        /\ UNCHANGED exc
    /\ UNCHANGED <<query_text, start_time, retriever_reply, retrieval_result,
                   sanitized_chunks, log, prompt, generation, answer,
                   call_vars>>

\* a variant that starts the query over after an exception
FailAndRetry(q) ==
    /\ pc[q] = "Failed"
    /\ pc' = [pc EXCEPT ![q] = "Retrieving"]
    /\ retriever_reply' = [retriever_reply EXCEPT ![q] = NoReply]
    /\ generation' = [generation EXCEPT ![q] = NoOutcome]
    /\ exc' = [exc EXCEPT ![q] = NoExc]
    /\ UNCHANGED <<query_text, now, start_time, retrieval_result, sanitized_chunks, log,
                   prompt, answer, response,
                   call_vars>>

\* except Exception as e: the error dict, with the clock read for query_time_ms
Fail(q) ==
    /\ pc[q] = "Failed"
    /\ IF Catches(exc[q])
       THEN \E t \in now..(now + MaxDelay) :
            /\ now' = t
            /\ response' = [response EXCEPT ![q] =
                    ErrorResponse(exc[q], ElapsedMs(t, start_time[q]))]
            /\ pc' = [pc EXCEPT ![q] = "Returned"]
       ELSE /\ pc' = [pc EXCEPT ![q] = "Propagated"]
            /\ UNCHANGED <<now, response>>
    /\ UNCHANGED <<query_text, start_time, retriever_reply, retrieval_result,
                   sanitized_chunks, log, prompt, generation, answer, exc,
                   call_vars>>

Next ==
    \E q \in Queries :
        \/ Start(q)
        \/ Retrieve(q)
        \/ Sanitize(q)
        \/ BuildPrompt(q)
        \/ Generate(q)
        \/ Respond(q)
        \/ Fail(q)

Spec == Init /\ [][Next]_vars

\* One step of the call of query_agent for q.
QueryStep(q) ==
    \/ Start(q)
    \/ Retrieve(q)
    \/ Sanitize(q)
    \/ BuildPrompt(q)
    \/ Generate(q)
    \/ Respond(q)
    \/ Fail(q)

\* Two callers at once, on two threads, with the same agent.
InitConcurrent ==
    /\ pc = [q \in Queries |-> "Start"]
    /\ query_text = [q \in Queries |-> IF q = "q1" THEN QueryRos ELSE QueryVla]
    /\ now = 0
    /\ start_time = [q \in Queries |-> 0]
    /\ retriever_reply = [q \in Queries |-> NoReply]
    /\ retrieval_result = [q \in Queries |-> NoResult]
    /\ sanitized_chunks = [q \in Queries |-> <<>>]
    /\ log = [q \in Queries |-> <<>>]
    /\ prompt = [q \in Queries |-> <<>>]
    /\ generation = [q \in Queries |-> NoOutcome]
    /\ answer = [q \in Queries |-> <<>>]
    /\ exc = [q \in Queries |-> NoExc]
    /\ response = [q \in Queries |-> NoResponse]
    /\ call_pc = "none"
    /\ call_chunks = <<>>
    /\ call_query = <<>>
    /\ CallResultsInit

SpecConcurrent == InitConcurrent /\ [][Next]_vars

\* A call of query_agent runs on: whenever it can take a step it takes one. It
\* cannot while an external call of its has not returned.
SpecFair == Spec /\ \A q \in Queries : WF_vars(QueryStep(q))

----------------------------------------------------------------------------
(* _sanitize_chunks called directly, on any list of raw records *)

InitSanitize ==
    /\ AgentInit({})
    /\ call_pc = "call"
    /\ call_chunks \in SeqsUpTo(SanitizePool, MaxRecords)
    /\ call_query = <<>>
    /\ CallResultsInit

\* One call of _sanitize_chunks on the list `chunks`, ending in the stage `done`.
SanitizeCall(chunks, done) ==
    LET run == SanitizeRun(chunks)
    IN  /\ call_chunks' = chunks
        /\ IF run.raised
           THEN /\ call_pc' = "raised"
                /\ UNCHANGED <<call_out, call_log>>
           ELSE /\ call_out' = run.sanitized
                /\ call_log' = SanitizeReport(chunks, run)
                /\ call_pc' = done
        /\ UNCHANGED <<call_query, call_prompt, call_input, call_label, agent_vars>>

\* sanitized = agent._sanitize_chunks(chunks)
CallSanitize ==
    /\ call_pc = "call"
    /\ SanitizeCall(call_chunks, "returned")

\* again = agent._sanitize_chunks(sanitized): a second call, on the first one's result
CallSanitizeAgain ==
    /\ call_pc = "returned"
    /\ SanitizeCall(call_out, "resanitized")

NextSanitize ==
    \/ CallSanitize
    \/ CallSanitizeAgain

SpecSanitize == InitSanitize /\ [][NextSanitize]_vars

----------------------------------------------------------------------------
(* _build_prompt called on its own, and its prompt tokenized as query_agent does *)

InitPrompt ==
    /\ AgentInit({})
    /\ call_pc = "call"
    /\ call_chunks \in SeqsUpTo(PromptPool, MaxContextChunks + MaxExtraChunks)
    /\ call_query \in PromptQueries
    /\ CallResultsInit

\* prompt = agent._build_prompt(query, chunks), its call of _sanitize_chunks included
CallBuildPrompt ==
    /\ call_pc = "call"
    /\ LET run == SanitizeRun(call_chunks)
       IN  IF run.raised
           THEN /\ call_pc' = "raised"
                /\ UNCHANGED <<call_out, call_log, call_prompt>>
           ELSE /\ call_out' = run.sanitized
                /\ call_log' = SanitizeReport(call_chunks, run)
                /\ call_prompt' = BuildPromptFrom(call_query, run.sanitized)
                /\ call_pc' = "built"
    /\ UNCHANGED <<call_chunks, call_query, call_input, call_label, agent_vars>>

\* inputs = self.tokenizer(prompt, return_tensors="pt", truncation=True, max_length=512)
CallTokenize ==
    /\ call_pc = "built"
    /\ call_input' = Tokenize(call_prompt, MaxInputTokens)
    /\ call_pc' = "tokenized"
    /\ UNCHANGED <<call_chunks, call_out, call_log, call_query, call_prompt, call_label,
                   agent_vars>>

NextPrompt ==
    \/ CallBuildPrompt
    \/ CallTokenize

SpecPrompt == InitPrompt /\ [][NextPrompt]_vars

\* The same two steps for queries as long as the tokenizer's max_length.
InitTokenize ==
    /\ AgentInit({})
    /\ call_pc = "call"
    /\ call_chunks \in SeqsUpTo(TokenizePool, MaxContextChunks + MaxExtraChunks)
    /\ call_query \in TokenizeQueries
    /\ CallResultsInit

SpecTokenize == InitTokenize /\ [][NextPrompt]_vars

----------------------------------------------------------------------------
(* _calculate_confidence called on its own *)

\* The chunk lists it is called on: chunks that differ in their score.
ConfidenceInputs ==
    SeqsUpTo({Record(Str(LongContent), Str(UrlA), 0, Num(s)) : s \in ScorePool},
             MaxRecords)

InitConfidence ==
    /\ AgentInit({})
    /\ call_pc = "call"
    /\ call_chunks \in ConfidenceInputs
    /\ call_query = <<>>
    /\ CallResultsInit

\* confidence = agent._calculate_confidence(chunks)
CallConfidence ==
    /\ call_pc = "call"
    /\ IF ConfidenceRaises(call_chunks)
       THEN /\ call_pc' = "raised"
            /\ UNCHANGED call_label
       ELSE /\ call_label' = CalculateConfidence(call_chunks)
            /\ call_pc' = "labelled"
    /\ UNCHANGED <<call_chunks, call_out, call_log, call_query, call_prompt, call_input,
                   agent_vars>>

NextConfidence == CallConfidence

SpecConfidence == InitConfidence /\ [][NextConfidence]_vars

----------------------------------------------------------------------------
(* Properties of query_agent, checked under Spec *)

Returned(q) == pc[q] = "Returned"

RequiredFields ==
    {"answer", "sources", "matched_chunks", "confidence", "query_time_ms", "status"}

ConfidenceLabels == {"low", "medium", "high"}

Range(s) == {s[i] : i \in 1..Len(s)}

\* a record with the four fields, each of the type the retriever contract names
WellFormed(chunk) ==
    /\ HasAllFields(chunk)
    /\ IsStr(chunk.content)
    /\ IsStr(chunk.url)
    /\ IsNumber(chunk.position)
    /\ IsNumber(chunk.similarity_score)

RECURSIVE IsSubsequence(_, _)
\* s can be had from t by deleting elements
IsSubsequence(s, t) ==
    IF Len(s) = 0 THEN TRUE
    ELSE IF Len(t) = 0 THEN FALSE
    ELSE IF Head(s) = Head(t) THEN IsSubsequence(Tail(s), Tail(t))
    ELSE IsSubsequence(s, Tail(t))

\* C1: when the retriever call raises or its result does not parse, the
\* response returned has status "error", no sources and no matched chunks.
C1_RetrieverFailureEndsFailed ==
    \A q \in Queries :
        (Returned(q) /\ retriever_reply[q].kind \in {"retrieve_raises", "unparsable"})
            => /\ response[q].status = "error"
               /\ response[q].sources = <<>>
               /\ response[q].matched_chunks = <<>>

\* C2: when tokenizing, generating or decoding raises, the response returned has
\* status "error", no sources, no matched chunks, a non-empty error message and a
\* query_time_ms; no retrieved chunk is in it.
C2_GenerationFaultGivesErrorResponse ==
    \A q \in Queries :
        (generation[q].stage \in {"tokenize", "generate", "decode"}
                /\ pc[q] \notin {"Generating", "Failed"})
            => /\ Returned(q)
               /\ response[q].status = "error"
               /\ response[q].sources = <<>>
               /\ response[q].matched_chunks = <<>>
               /\ "error" \in DOMAIN response[q]
               /\ Len(response[q].error) > 0
               /\ "query_time_ms" \in DOMAIN response[q]
               /\ response[q].query_time_ms >= 0
               /\ \A i \in 1..Len(sanitized_chunks[q]) :
                      ~Contains(response[q].answer, sanitized_chunks[q][i].content.v)

\* a generation fault after a prompt built from retrieved chunks has been answered
C2_Witness ==
    \E q \in Queries :
        /\ Returned(q)
        /\ generation[q].stage = "decode"
        /\ Len(sanitized_chunks[q]) > 0
        /\ response[q].status = "error"

\* C3: no fault of any stage leaves query_agent: a call that ended has returned a
\* response whose status is "success" or "error", and an "error" response carries
\* a non-empty error message.
C3_NoFaultEscapes ==
    \A q \in Queries :
        /\ pc[q] # "Propagated"
        /\ Returned(q) =>
              /\ response[q].status \in {"success", "error"}
              /\ response[q].status = "error" =>
                    ("error" \in DOMAIN response[q] /\ Len(response[q].error) > 0)

\* a fault while the sources and the confidence are assembled, answered
C3_Witness ==
    \E q \in Queries :
        /\ Returned(q)
        /\ retriever_reply[q].kind = "results"
        /\ generation[q].stage = "ok"
        /\ response[q].status = "error"
        /\ exc[q].type = NameTypeError

\* C4: the confidence of a success response is that of the sanitized chunks.
C4_ConfidenceOfSanitizedChunks ==
    \A q \in Queries :
        (Returned(q) /\ response[q].status = "success")
            => response[q].confidence = CalculateConfidence(sanitized_chunks[q])

\* C5: in a success response matched_chunks is the sanitized sequence and sources
\* is the duplicate-free list of the urls of the sanitized chunks.
C5_ResponseHoldsSanitizedChunksOnly ==
    \A q \in Queries :
        (Returned(q) /\ response[q].status = "success")
            => /\ response[q].matched_chunks = sanitized_chunks[q]
               /\ Range(response[q].sources) = UrlSet(sanitized_chunks[q])
               /\ Len(response[q].sources) = Cardinality(UrlSet(sanitized_chunks[q]))

\* C6: when the retriever call and the generation call both succeed, the response
\* has status "success", whatever is wrong with individual chunks.
C6_ChunkDefectsNeverFailTheQuery ==
    \A q \in Queries :
        (/\ Returned(q)
         /\ retriever_reply[q].kind \in {"results", "no_results"}
         /\ generation[q].stage = "ok")
            => response[q].status = "success"

\* C7: every well-formed record of a parsed retriever result is among the
\* retrieved chunks handed to the sanitizer, whatever the other records lack.
C7_WellFormedRecordsReachSanitizer ==
    \A q \in Queries :
        (pc[q] = "Sanitizing" /\ retriever_reply[q].kind = "results")
            => \A i \in 1..Len(retriever_reply[q].results) :
                  WellFormed(retriever_reply[q].results[i])
                      => FormatChunk(retriever_reply[q].results[i])
                            \in Range(RetrievedChunks(q))

\* C8: every response returned has the fields answer, sources, matched_chunks,
\* confidence (low, medium or high), query_time_ms and status, and has the field
\* error exactly when its status is "error".
C8_ResponseHasEveryField ==
    \A q \in Queries :
        Returned(q)
            => /\ RequiredFields \subseteq DOMAIN response[q]
               /\ response[q].confidence \in ConfidenceLabels
               /\ ("error" \in DOMAIN response[q]) <=> (response[q].status = "error")

----------------------------------------------------------------------------
(* Properties of _sanitize_chunks, checked under SpecSanitize *)

\* C9: every chunk _sanitize_chunks returns has string content whose stripped
\* length is at least 100.
C9_KeptChunksAreLongEnough ==
    \A i \in 1..Len(call_out) :
        /\ "content" \in DOMAIN call_out[i]
        /\ IsStr(call_out[i].content)
        /\ Len(Strip(call_out[i].content.v)) >= MinContentLength

\* a call that kept one chunk and dropped one that is too short only once stripped
C9_Witness ==
    /\ call_pc = "returned"
    /\ Len(call_out) = 1
    /\ \E i \in 1..Len(call_chunks) :
          /\ SanitizeVerdict(call_chunks[i]) = "short"
          /\ Len(call_chunks[i].content.v) >= MinContentLength

\* C10: the list _sanitize_chunks returns is a subsequence of the list it was
\* given, the kept chunks being the given ones with every field as it was, and
\* the call leaves the list it was given as it was.
C10_OutputIsSubsequenceOfUnchangedInput ==
    [][(call_pc = "call" /\ call_pc' = "returned")
           => /\ call_chunks' = call_chunks
              /\ IsSubsequence(call_out', call_chunks)
              /\ \A i \in 1..Len(call_out') :
                    \E j \in 1..Len(call_chunks) :
                        /\ call_out'[i] = call_chunks[j]
                        /\ DOMAIN call_out'[i] = DOMAIN call_chunks[j]]_vars

\* a call that dropped the first of two chunks and kept the second, whose content
\* has whitespace at both ends
C10_Witness ==
    /\ call_pc = "returned"
    /\ Len(call_chunks) = 2
    /\ call_out = <<call_chunks[2]>>
    /\ call_out[1].content.v # Strip(call_out[1].content.v)

\* C11: sanitizing a list that _sanitize_chunks returned gives the same list back,
\* and that second call skips nothing, so it logs nothing.
C11_SanitizingTwiceChangesNothing ==
    call_pc = "resanitized" => (call_out = call_chunks /\ call_log = <<>>)

\* a second call on a list of two different kept chunks
C11_Witness ==
    /\ call_pc = "resanitized"
    /\ Len(call_out) = 2
    /\ call_out[1] # call_out[2]

\* the contents a chunk must lose on: absent, no string, nothing but whitespace
Contentless(chunk) ==
    \/ "content" \notin DOMAIN chunk
    \/ chunk.content.t # "str"
    \/ \A k \in 1..Len(chunk.content.v) : chunk.content.v[k] \in Whitespace

\* C14: _sanitize_chunks returns for every list of raw records, raising nothing,
\* and drops each record whose content is absent, no string, empty or whitespace.
C14_SanitizerIsTotalAndDropsContentless ==
    /\ call_pc # "raised"
    /\ call_pc = "returned" =>
           \A i \in 1..Len(call_chunks) :
               Contentless(call_chunks[i]) => call_chunks[i] \notin Range(call_out)

\* a call on a record without content and a record whose content is a number
C14_Witness ==
    /\ call_pc = "returned"
    /\ Len(call_chunks) = 2
    /\ "content" \notin DOMAIN call_chunks[1]
    /\ Get(call_chunks[2], "content", Null) = Num(42)
    /\ call_out = <<>>

\* a chunk the type/emptiness, malformed-marker and minimum-length checks let through
PassesEarlierChecks(chunk) ==
    /\ ~Contentless(chunk)
    /\ ~StartsWith(Strip(chunk.content.v), MarkerFile)
    /\ ~StartsWith(Strip(chunk.content.v), MarkerWiki)
    /\ Len(Strip(chunk.content.v)) >= 100

\* the text holds one of the boilerplate phrases, whatever the case of its letters
HasBoilerplatePhrase(text) ==
    \E phrase \in Range(metadata_patterns) :
        \E at \in 0..(Len(text) - Len(phrase)) :
            \A k \in 1..Len(phrase) : LowerChar(text[at + k]) = phrase[k]

\* C13: a chunk that passes the type/emptiness, malformed-marker and minimum-length
\* checks is dropped exactly when its content holds a boilerplate phrase (in any
\* case) and has under 200 stripped characters; with 200 or more it is kept.
C13_BoilerplateDroppedOnlyUnder200 ==
    call_pc = "returned" =>
        \A i \in 1..Len(call_chunks) :
            PassesEarlierChecks(call_chunks[i]) =>
                (call_chunks[i] \notin Range(call_out)
                    <=> /\ HasBoilerplatePhrase(call_chunks[i].content.v)
                        /\ Len(Strip(call_chunks[i].content.v)) < 200)

\* a call that dropped boilerplate of 199 characters and kept boilerplate of 200
C13_Witness ==
    /\ call_pc = "returned"
    /\ Len(call_chunks) = 2
    /\ call_chunks[1] = Record(Str(NavUnderContent), Str(UrlA), 14, Num(50))
    /\ Len(NavUnderContent) = 199
    /\ call_chunks[2] = Record(Str(NavAtContent), Str(UrlB), 15, Num(50))
    /\ Len(NavAtContent) = 200
    /\ call_out = <<call_chunks[2]>>

----------------------------------------------------------------------------
(* Claims about the prompt *)

\* the prompt of a direct call of _build_prompt is there
PromptBuilt == call_pc \in {"built", "tokenized"}

\* the text p holds the text t from position at on
HoldsAt(p, at, t) ==
    /\ at >= 1
    /\ at + Len(t) - 1 <= Len(p)
    /\ \A k \in 1..Len(t) : p[at + k - 1] = t[k]

\* the positions of the prompt p at which the text t starts
Occurrences(p, t) == {at \in 1..(Len(p) - Len(t) + 1) : HoldsAt(p, at, t)}

\* the label "Context i: "
ContextLabel(i) == <<"C", "o", "n", "t", "e", "x", "t", " ">> \o IntToStr(i) \o <<":", " ">>

\* the positions of the prompt p at which a Context entry starts
EntryStarts(p) ==
    {at \in Occurrences(p, <<"C", "o", "n", "t", "e", "x", "t", " ">>) :
        \E i \in 1..9 : HoldsAt(p, at, ContextLabel(i))}

\* the positions of the prompt p at which the Context block is over
BlockEnds(p) == Occurrences(p, TxtInstruction)

\* the last position of the entry that starts at `at`, given where the entries
\* start and where the block is over: it ends two characters (a blank line)
\* before the next entry, or right before the line "Answer the question"
EntryEnd(starts, over, at) ==
    LET later == {n \in starts \cup over : n > at}
    IN  IF starts \cap later # {}
        THEN MinOf(later) - Len(TxtBlankLine) - 1
        ELSE MinOf(later) - 1

\* C12: a chunk whose content begins with "[File:" or "[[" is not among the
\* chunks the sanitizer returns, whatever its length and score, and no Context
\* entry of the prompt holds its content.
C12_MarkedChunksNeverReachThePrompt ==
    PromptBuilt =>
        \A i \in 1..Len(call_chunks) :
            LET text == call_chunks[i].content.v
            IN  (\/ Prefix(text, 6) = <<"[", "F", "i", "l", "e", ":">>
                 \/ Prefix(text, 2) = <<"[", "[">>)
                    => /\ call_chunks[i] \notin Range(call_out)
                       /\ Occurrences(call_prompt, Prefix(text, MaxChunkChars)) = {}

\* a prompt with Context entries, built from a list that held a "[File:" chunk and
\* a "[[" chunk of 302 characters and score 0.95
C12_Witness ==
    /\ PromptBuilt
    /\ Len(call_out) >= 1
    /\ \E i, j \in 1..Len(call_chunks) :
          /\ StartsWith(call_chunks[i].content.v, MarkerFile)
          /\ StartsWith(call_chunks[j].content.v, MarkerWiki)
          /\ Len(call_chunks[j].content.v) > MaxChunkChars
          /\ call_chunks[j].similarity_score.v > 90

\* C15: whatever the query and the chunks, the prompt holds at most 3 Context
\* entries, and each entry, label and chunk text, is at most 250 characters plus
\* the length of its label "Context i: ".
C15_ContextEntriesWithinBudget ==
    PromptBuilt =>
        LET starts == EntryStarts(call_prompt)
            over == BlockEnds(call_prompt)
        IN  /\ Cardinality(starts) <= 3
            /\ \A at \in starts :
                   EntryEnd(starts, over, at) - at + 1 <= 250 + Len(ContextLabel(1))

\* a prompt of three entries built from more than three kept chunks, the first
\* of them longer than 250 characters
C15_Witness ==
    /\ PromptBuilt
    /\ Len(call_out) > 3
    /\ Len(call_out[1].content.v) > 250
    /\ Cardinality(EntryStarts(call_prompt)) = 3

\* C16: the Context entries of the prompt are the first min(3, n) of the n
\* sanitized chunks, in their order, labelled Context 1, 2, ..., each holding
\* the first 250 characters of its chunk's content; the block holds nothing
\* else, so nothing of a fourth or fifth chunk.
C16_EntriesAreTheFirstThreeChunksCut ==
    (PromptBuilt /\ Len(call_out) > 0) =>
        LET starts == EntryStarts(call_prompt)
            over == BlockEnds(call_prompt)
            n == Len(call_out)
        IN  /\ Cardinality(starts) = IF n < 3 THEN n ELSE 3
            /\ HoldsAt(call_prompt, MinOf(starts) - Len(TxtContextHead), TxtContextHead)
            /\ \A at \in starts :
                   LET i == Cardinality({s \in starts : s <= at})
                       text == call_out[i].content.v
                       last == EntryEnd(starts, over, at)
                   IN  /\ HoldsAt(call_prompt, at, ContextLabel(i))
                       /\ SubSeq(call_prompt, at + Len(ContextLabel(i)), last)
                              = SubSeq(text, 1, IF Len(text) < 250 THEN Len(text) ELSE 250)
                       /\ \/ HoldsAt(call_prompt, last + 1, TxtBlankLine \o ContextLabel(i + 1))
                          \/ last + 1 \in over

\* a prompt built from more than three kept chunks whose fourth has another
\* content than the first three, and of which the prompt holds nothing
C16_Witness ==
    /\ PromptBuilt
    /\ Len(call_out) > 3
    /\ \A i \in 1..3 : call_out[i].content # call_out[4].content
    /\ Occurrences(call_prompt, Prefix(call_out[4].content.v, 250)) = {}
    /\ Len(call_out[1].content.v) > 250

\* C17: in a prompt built with at least one sanitized chunk the whole query comes
\* first, right after "Question: "; the Context entries are there, and no Context
\* label, no Context heading and no chunk text starts before the end of the query.
C17_QuestionBeforeContext ==
    (PromptBuilt /\ Len(call_out) >= 1) =>
        LET lead == <<"Q", "u", "e", "s", "t", "i", "o", "n", ":", " ">> \o call_query
        IN  /\ HoldsAt(call_prompt, 1, lead)
            /\ EntryStarts(call_prompt) # {}
            /\ \A at \in 1..Len(lead) :
                   /\ ~HoldsAt(call_prompt, at, <<"C", "o", "n", "t", "e", "x", "t">>)
                   /\ \A i \in 1..Len(call_out) :
                          ~HoldsAt(call_prompt, at, Prefix(call_out[i].content.v, 250))

\* a prompt for the query "What is ROS2?" with two Context entries or more
C17_Witness ==
    /\ PromptBuilt
    /\ call_query = QueryRos
    /\ Len(call_out) >= 2
    /\ Cardinality(EntryStarts(call_prompt)) >= 2

\* the statement and the hint of the fallback prompt
TxtNoInformation ==
    <<"I", " ", "d", "o", "n", "'", "t", " ", "h", "a", "v", "e", " ", "s", "p", "e", "c",
      "i", "f", "i", "c", " ", "i", "n", "f", "o", "r", "m", "a", "t", "i", "o", "n", " ",
      "a", "b", "o", "u", "t", " ", "t", "h", "i", "s", " ", "t", "o", "p", "i", "c", " ",
      "i", "n", " ", "m", "y", " ", "k", "n", "o", "w", "l", "e", "d", "g", "e", " ", "b",
      "a", "s", "e", ".">>

TxtDomainHint ==
    <<"P", "l", "e", "a", "s", "e", " ", "a", "s", "k", " ", "a", "b", "o", "u", "t", " ",
      "R", "O", "S", " ", "2", ",", " ", "h", "u", "m", "a", "n", "o", "i", "d", " ", "r",
      "o", "b", "o", "t", "i", "c", "s", ",", " ", "V", "L", "A", " ", "s", "y", "s", "t",
      "e", "m", "s", ",", " ", "o", "r", " ", "s", "i", "m", "u", "l", "a", "t", "i", "o",
      "n", " ", "t", "e", "c", "h", "n", "i", "q", "u", "e", "s", ".">>

\* C19: when no chunk survives sanitization (none given, or all dropped) the
\* prompt holds the query, no "Context" and no chunk text, and it holds the
\* statement that no specific information is there and the knowledge-domain hint.
C19_FallbackPromptWithoutChunks ==
    (PromptBuilt /\ call_out = <<>>) =>
        /\ HoldsAt(call_prompt, Len(TxtQuestion) + 1, call_query)
        /\ Occurrences(call_prompt, <<"C", "o", "n", "t", "e", "x", "t">>) = {}
        /\ \A i \in 1..Len(call_chunks) :
               Occurrences(call_prompt, Prefix(Strip(call_chunks[i].content.v), 100)) = {}
        /\ Occurrences(call_prompt, TxtNoInformation) # {}
        /\ Occurrences(call_prompt, TxtDomainHint) # {}

\* a fallback prompt for "What is ROS2?" after every chunk given was dropped
C19_Witness ==
    /\ PromptBuilt
    /\ call_query = QueryRos
    /\ Len(call_chunks) >= 2
    /\ call_out = <<>>
    /\ Occurrences(call_prompt, TxtNoInformation) # {}

\* C18: the input of generation is the prompt cut at its end to 512 tokens at
\* most, the whole prompt when that fits; and when "Question: " and the query fit
\* 512 tokens on their own (end-of-sequence token included), the input holds the
\* whole query, however long the context.
C18_InputCutFromTheEndKeepsTheQuery ==
    call_pc = "tokenized" =>
        LET text == Decode(call_input)
            lead == <<"Q", "u", "e", "s", "t", "i", "o", "n", ":", " ">> \o call_query
        IN  /\ Len(call_input) <= 512
            /\ HoldsAt(call_prompt, 1, text)
            /\ Len(call_prompt) + 1 <= 512 => text = call_prompt
            /\ Len(call_prompt) + 1 > 512 => Len(call_input) = 512
            /\ Len(lead) + 1 <= 512 => Occurrences(text, call_query) # {}

\* the longest query that fits, with three Context entries behind it: the input
\* is cut and holds the query
C18_Witness ==
    /\ call_pc = "tokenized"
    /\ call_query = QueryFitting
    /\ Len(call_out) >= 3
    /\ Len(call_prompt) > 2 * 512
    /\ Len(call_input) = 512
    /\ Occurrences(Decode(call_input), call_query) # {}

----------------------------------------------------------------------------
(* Claims about the confidence label *)

RECURSIVE ScoreTotal(_)
\* the sum of the similarity scores of the chunks, in hundredths
ScoreTotal(chunks) ==
    IF chunks = <<>> THEN 0
    ELSE Head(chunks).similarity_score.v + ScoreTotal(Tail(chunks))

\* the mean score of the chunks xs is at least that of the chunks ys
MeanAtLeast(xs, ys) == ScoreTotal(xs) * Len(ys) >= ScoreTotal(ys) * Len(xs)

LabelRank == [low |-> 0, medium |-> 1, high |-> 2]

\* C20: _calculate_confidence returns for every chunk list with numeric scores:
\* "low" for the empty list, else "high" for a mean of at least 0.7, "medium"
\* for a mean of at least 0.4 and under 0.7, "low" for a mean under 0.4 (scores
\* in hundredths), so that a list with a mean at least as high never gets a
\* lower label.
C20_ConfidenceBandsOfTheMean ==
    /\ call_pc # "raised"
    /\ call_pc = "labelled" =>
           LET n == Len(call_chunks)
               total == ScoreTotal(call_chunks)
           IN  /\ call_label \in {"low", "medium", "high"}
               /\ n = 0 => call_label = "low"
               /\ n > 0 =>
                      /\ call_label = "high" <=> total >= 70 * n
                      /\ call_label = "medium" <=> (total >= 40 * n /\ total < 70 * n)
                      /\ call_label = "low" <=> total < 40 * n
               /\ \A other \in ConfidenceInputs :
                      (n > 0 /\ Len(other) > 0 /\ MeanAtLeast(other, call_chunks))
                          => LabelRank[CalculateConfidence(other)] >= LabelRank[call_label]

\* scores 0.69 and 0.71, a mean of exactly 0.7, labelled "high"
C20_Witness ==
    /\ call_pc = "labelled"
    /\ Len(call_chunks) = 2
    /\ call_chunks[1].similarity_score.v = 69
    /\ call_chunks[2].similarity_score.v = 71
    /\ call_label = "high"

----------------------------------------------------------------------------
(* Claims about the stages of a query *)

\* retrieve_information returned chunks, or none, and no error
RetrievalSucceeded(q) ==
    /\ retriever_reply[q].kind \in {"results", "no_results"}
    /\ "error" \notin DOMAIN retrieval_result[q]

\* retrieval succeeded and the sanitizer has left no chunk
EmptyContext(q) ==
    /\ RetrievalSucceeded(q)
    /\ pc[q] \notin {"Retrieving", "Sanitizing"}
    /\ sanitized_chunks[q] = <<>>

\* C21: when retrieval succeeds and no chunk survives sanitization, the query
\* goes on to generation with the fallback prompt, and when generation succeeds
\* the response has status "success".
C21_EmptyContextIsNoFailure ==
    \A q \in Queries :
        (EmptyContext(q) /\ pc[q] \notin {"PromptBuilding", "Generating"})
            => /\ prompt[q] = TxtQuestion \o query_text[q] \o TxtFallback
               /\ generation[q] # NoOutcome
               /\ (generation[q].stage = "ok" /\ pc[q] # "Responding")
                      => (Returned(q) /\ response[q].status = "success")

\* the stages of a query in their order
StageOrder ==
    <<"Start", "Retrieving", "Sanitizing", "PromptBuilding", "Generating", "Responding">>

\* the moves from one stage to the next, from any stage to Failed, and from the
\* last stage of a query to its end (the response returned, the exception raised)
StageSteps ==
    {<<StageOrder[i], StageOrder[i + 1]>> : i \in 1..(Len(StageOrder) - 1)}
        \cup {<<StageOrder[i], "Failed">> : i \in 1..Len(StageOrder)}
        \cup {<<"Responding", "Returned">>, <<"Failed", "Returned">>,
              <<"Failed", "Propagated">>}

\* C22: within one query the stages are entered in the order Start, Retrieving,
\* Sanitizing, PromptBuilding, Generating, Responding, each from the one before
\* it, Failed possibly ending the sequence; the retriever and the generation
\* backend are each called at most once, and neither is called after Failed.
C22_StagesInOrderAndNoRetry ==
    [][\A q \in Queries :
          /\ pc'[q] # pc[q] => <<pc[q], pc'[q]>> \in StageSteps
          /\ retriever_reply'[q] # retriever_reply[q]
                => (pc[q] = "Retrieving" /\ retriever_reply[q] = NoReply)
          /\ generation'[q] # generation[q]
                => (pc[q] = "Generating" /\ generation[q] = NoOutcome)
          /\ pc[q] \in {"Failed", "Returned", "Propagated"}
                => /\ retriever_reply'[q] = retriever_reply[q]
                   /\ generation'[q] = generation[q]]_vars

\* a query that failed while the response was assembled, after both external
\* calls had returned
C22_Witness ==
    \E q \in Queries :
        /\ pc[q] = "Failed"
        /\ retriever_reply[q].kind = "results"
        /\ generation[q].stage = "ok"

\* C24: every query reaches Responding or Failed, also when an external call
\* never returns, each external call being bounded by a timeout.
C24_EveryQueryEndsDespiteHangingCalls ==
    \A q \in Queries :
        (pc[q] = "Start") ~> (pc[q] \in {"Responding", "Failed"})

\* the chunks a query gets from its own retriever reply
OwnChunks(q) ==
    LET r == RetrieveInformation(query_text[q], retriever_reply[q])
    IN  IF r.raised THEN <<>> ELSE Get(r.value, "retrieved_chunks", <<>>)

\* The response of a query run alone with the retriever reply and the generation
\* outcome g: its fields other than the time taken, the sources as a set.
ResponseAlone(query, reply, g) ==
    LET r == RetrieveInformation(query, reply)
        chunks == IF r.raised THEN <<>> ELSE Get(r.value, "retrieved_chunks", <<>>)
        failure ==
            CASE r.raised -> r.exc
              [] SanitizeRun(chunks).raised -> SanitizeError(SanitizeRun(chunks))
              [] g.stage # "ok" -> g.exc
              [] UrlMissing(chunks) -> KeyErrorOf(FieldChars.url)
              [] UrlUnhashable(chunks) -> Exc(NameTypeError, MsgUnhashable)
              [] ConfidenceRaises(chunks) -> ConfidenceError(chunks)
              [] OTHER -> NoExc
    IN  IF failure # NoExc
        THEN [fields |-> ErrorResponse(failure, 0), sources |-> {}]
        ELSE [fields |-> SuccessResponse(g.answer, <<>>, chunks, 0),
              sources |-> UrlSet(chunks)]

SameButTimeAndOrder(resp, alone) ==
    /\ DOMAIN resp = DOMAIN alone.fields
    /\ \A f \in DOMAIN resp \ {"sources", "query_time_ms"} : resp[f] = alone.fields[f]
    /\ Range(resp.sources) = alone.sources

\* what a query holds comes from its own query text, retriever reply and
\* generation outcome
OwnResults(q) ==
    /\ pc[q] \in {"PromptBuilding", "Generating", "Responding"}
          => sanitized_chunks[q] = SanitizeChunks(OwnChunks(q))
    /\ pc[q] \in {"Generating", "Responding"}
          => prompt[q] = BuildPromptFrom(query_text[q], SanitizeChunks(OwnChunks(q)))
    /\ Returned(q)
          => SameButTimeAndOrder(response[q],
                 ResponseAlone(query_text[q], retriever_reply[q], generation[q]))

\* what a query holds
Held(q) ==
    <<pc[q], query_text[q], start_time[q], retriever_reply[q], retrieval_result[q],
      sanitized_chunks[q], log[q], prompt[q], generation[q], answer[q], exc[q],
      response[q]>>

\* C23: queries running concurrently on the same agent are isolated: under every
\* interleaving each query's sanitized chunks, prompt and response (answer,
\* sources, matched_chunks, confidence, status) are the ones it gets when run
\* alone with the same retrieval and generation results, and a step of one query
\* changes nothing another query holds.
C23_ConcurrentQueriesAreIsolated ==
    /\ [](\A q \in Queries : OwnResults(q))
    /\ [][\A q \in Queries :
             \A r \in Queries \ {q} : Held(r)' # Held(r) => Held(q)' = Held(q)]_vars

\* two queries answered side by side, each from its own chunks
C23_Witness ==
    /\ \A q \in Queries : Returned(q) /\ response[q].status = "success"
    /\ response["q1"].matched_chunks # response["q2"].matched_chunks
    /\ response["q1"].matched_chunks # <<>>
    /\ response["q2"].matched_chunks # <<>>

\* C25: every call of _sanitize_chunks reports the chunks kept and dropped, kept
\* plus dropped being the number of input chunks, also when it drops none.
C25_EveryCallReportsKeptAndDropped ==
    call_pc \in {"returned", "resanitized"}
        => /\ Len(call_log) = 1
           /\ call_log[1].kept = Len(call_out)
           /\ call_log[1].kept + call_log[1].skipped = Len(call_chunks)

\* C26: the keep/skip decision test_filtering.py shows for a chunk is the
\* decision of _sanitize_chunks, so the number of substantive chunks it prints
\* is the number of chunks the agent puts forward.
C26_TestFilteringAgreesWithAgent ==
    call_pc = "returned"
        => /\ \A i \in 1..Len(call_chunks) :
                 (TestFilteringVerdict(call_chunks[i]) = "keep")
                     <=> (SanitizeVerdict(call_chunks[i]) = "keep")
           /\ Cardinality({i \in 1..Len(call_chunks) :
                              TestFilteringVerdict(call_chunks[i]) = "keep"})
                 = Len(call_out)

\* retrieval failed: no client, an exception of the retrieve call, a result
\* that cannot be parsed or lacks a field
RetrievalFailed(q) ==
    \/ retriever_reply[q].kind \in {"ctor_raises", "retrieve_raises", "unparsable", "not_dict"}
    \/ "error" \in DOMAIN retrieval_result[q]

\* C27: all ways in which retrieval can fail give a response with the same
\* status and the same presence of the error field.
C27_RetrievalFailuresAnswerAlike ==
    \A q, r \in Queries :
        (Returned(q) /\ Returned(r) /\ RetrievalFailed(q) /\ RetrievalFailed(r))
            => /\ response[q].status = response[r].status
               /\ ("error" \in DOMAIN response[q]) <=> ("error" \in DOMAIN response[r])

\* the longest context block: three entries of a label and 250 characters,
\* two blank lines between them
MaxContextBlock == MaxContextChunks * (MaxChunkChars + Len(ContextLabel(1))) + 4

\* C28: the query is in the prompt whole, and the prompt is longer than the
\* query by no more than the fixed text of the template and a context block of
\* 3 * (250 + 11) + 4 = 787 characters, whatever the chunks.
C28_PromptOverheadIsBounded ==
    PromptBuilt
        => /\ HoldsAt(call_prompt, Len(TxtQuestion) + 1, call_query)
           /\ MaxContextBlock = 787
           /\ Len(call_prompt) - Len(call_query)
                 <= Len(TxtQuestion) + Len(TxtContextHead) + MaxContextBlock
                        + Len(TxtInstruction)

\* more chunks kept than the prompt takes, each longer than the cut: the bound
\* is met
C28_Witness ==
    /\ PromptBuilt
    /\ Len(call_out) > MaxContextChunks
    /\ Len(call_prompt) - Len(call_query)
          = Len(TxtQuestion) + Len(TxtContextHead) + MaxContextBlock + Len(TxtInstruction)

====
